---- MODULE Spec2Model ----
(***************************************************************************)
(* ChronosVault (quick-vault): time-locked capsules kept in IndexedDB.     *)
(*                                                                         *)
(* Eight specifications share the variables below:                         *)
(*   RepoSpec    - services/storage.ts called directly (save / getAll /    *)
(*                 delete) against the IndexedDB environment;              *)
(*   Spec        - the App orchestrator: create, list, delete, open, with  *)
(*                 the dashboard's capsule cards and the wall clock;       *)
(*   CaptureSpec - the media-capture controller of CreateCapsule;          *)
(*   CreateSpec  - the create form: typing, refining the note, attaching   *)
(*                 a file, submitting, under every enrichment behaviour;   *)
(*   SortSpec    - loadCapsules over vaults of several capsules;           *)
(*   TimerSpec   - the countdown of a card, the clock in milliseconds;     *)
(*   SessionSpec - a capture session together with the submission of the   *)
(*                 form, up to the unmount of CreateCapsule;               *)
(*   UnlockSpec  - a capsule card across its unlock instant, the dashboard *)
(*                 left and shown again, with clock and timer fair.        *)
(*                                                                         *)
(* JavaScript values: undefined/null is <<>> for file-like values and the  *)
(* string "undefined" for optional strings; a Blob/File is <<type, size>>; *)
(* a datetime string is <<t>> (t its instant in clock ticks), and the      *)
(* empty string of an unfilled date input is <<>>.                         *)
(***************************************************************************)
EXTENDS Integers, Sequences, FiniteSets, TLC

\* ---------------------------------------------------------------- bounds
MaxTime == 1        \* the wall clock runs 0..MaxTime
MaxIds == 2         \* crypto.randomUUID() draws / distinct store keys
MaxUrls == 2        \* URL.createObjectURL calls
MaxQueue == 1       \* IndexedDB operations in flight

Ids == 1..MaxIds
Times == 0..MaxTime

Undefined == "undefined"
NoBlob == <<>>
NoUrl == 0

\* ------------------------------------------------------- pure helpers
\* new Date(s).getTime() of a stored datetime string
DateTime(s) == s[1]

\* new Date(t).toISOString()
ToISOString(t) == <<t>>

\* String.prototype.startsWith on the content types the model uses
StartsWith(type, prefix) ==
    CASE prefix = "image" -> type \in {"image/png"}
      [] prefix = "audio" -> type \in {"audio/webm", "audio/ogg"}
      [] prefix = "video" -> type \in {"video/webm", "video/x-matroska"}
      [] prefix = "image/" -> type \in {"image/png"}
      [] prefix = "audio/" -> type \in {"audio/webm", "audio/ogg"}
      [] prefix = "video/" -> type \in {"video/webm", "video/x-matroska"}
      [] OTHER -> FALSE

RECURSIVE SortedIds(_)
SortedIds(S) ==
    IF S = {} THEN <<>>
    ELSE LET m == CHOOSE x \in S : \A y \in S : x <= y
         IN <<m>> \o SortedIds(S \ {m})

\* ------------------------------------------------------------ variables
VARIABLES
    \* environment
    store,          \* the object store 'capsules': key (id) -> record
    now,            \* the wall clock
    nextUrl,        \* object URLs handed out so far
    \* storage.ts as seen by its caller
    lastOp,         \* the storage promise settled by the latest step
    readResult,     \* what it resolved with, when it was getAllCapsules
    readAt,         \* the clock value that getAllCapsules read
    acked           \* id -> durable fields of the latest resolved save of id

VARIABLES
    \* App (the orchestrator) and the components it renders
    idbQueue,        \* storage calls issued by the App and not yet settled
    view,            \* 'DASHBOARD' | 'CREATE' | 'VIEW_CAPSULE'
    capsules,        \* the collection on display (state set by loadCapsules)
    selectedCapsule, \* <<>> or <<capsule>>
    cards,           \* mounted CapsuleCards: id -> their isLocked state
    timeLeft,        \* mounted CapsuleCards: id -> the remaining time shown
    isSubmitting,    \* of the mounted CreateCapsule
    enrich,          \* enrichment calls awaited by submissions in flight
    aiMode,          \* the enrichment collaborator: "off" | "fail" | "empty" | "ok"
    usedIds,         \* ids crypto.randomUUID() has returned
    minDate,         \* the min attribute of the mounted form's date input
    returnedEarly,   \* the form's latest submission ended at handleSubmit's guard
    \* what happened to the capsules handleCreateSubmit built
    pendingShow,     \* ids whose save resolved, no list displayed since
    missed,          \* ids the first list displayed after their save lacked
    failedSaves,     \* ids whose save rejected
    alerted,         \* ids whose submission ended in handleSubmit's alert
    saveCalls,       \* id -> saveCapsule calls made for it
    submitted        \* id -> the form data its capsule was built from

VARIABLES
    \* CreateCapsule: the text fields of the form
    formData,        \* title, description and unlockDate as typed
    refining         \* <<>>, or <<the note refineUserNote was called with>>

VARIABLES
    \* CreateCapsule: the media-capture controller
    recordingMode,    \* 'none' | 'audio' | 'video'
    isRecording,
    recordingTime,
    stream,           \* the stream held in state, or NoStream
    mediaError,       \* Null or the message on display
    mediaRecorderRef, \* the stream of the recorder in the ref, or NoRecorder
    chunksRef,        \* the buffered fragments
    timerRef,         \* the interval in the ref, or NoTimer
    mediaFile,        \* formData.mediaFile
    fileOrigin,       \* where mediaFile came from: "none" | "upload" | "recording"
    \* the devices
    liveStreams,      \* streams with a track that is not stopped
    acquisitions,     \* getUserMedia calls not yet settled
    recorders,        \* MediaRecorders made so far, by the stream they record
    intervals,        \* setInterval timers running, by the stream of their recorder
    nextStream        \* getUserMedia calls made so far

envVars == <<store, now, nextUrl>>
repoVars == <<lastOp, readResult, readAt, acked>>
appVars == <<idbQueue, view, capsules, selectedCapsule, cards, timeLeft, isSubmitting,
             enrich, aiMode, usedIds, minDate, returnedEarly>>
histVars == <<pendingShow, missed, failedSaves, alerted, saveCalls, submitted>>
formVars == <<formData, refining>>
captureVars == <<recordingMode, isRecording, recordingTime, stream, mediaError,
                 mediaRecorderRef, chunksRef, timerRef, mediaFile, fileOrigin,
                 liveStreams, acquisitions, recorders, intervals, nextStream>>
vars == <<envVars, repoVars, appVars, histVars, captureVars, formVars>>

\* useState({title: '', description: '', unlockDate: '', mediaFile: null})
EmptyForm == [title |-> "", description |-> "", unlockDate |-> <<>>]

Null == "null"
NoStream == 0
NoRecorder == 0
NoTimer == 0

\* the controller as useState/useRef initialise it, no device in use
ControllerInit ==
    /\ recordingMode = "none"
    /\ isRecording = FALSE
    /\ recordingTime = 0
    /\ stream = NoStream
    /\ mediaError = Null
    /\ mediaRecorderRef = NoRecorder
    /\ chunksRef = <<>>
    /\ timerRef = NoTimer
    /\ mediaFile = <<>>
    /\ fileOrigin = "none"
    /\ liveStreams = {}
    /\ acquisitions = {}
    /\ recorders = [k \in {} |-> 0]
    /\ intervals = {}
    /\ nextStream = 0

\* ------------------------------------------------- services/storage.ts
\* How an IndexedDB operation can end: indexedDB.open fails; the request
\* fails (its transaction then aborts); the request succeeds and the
\* transaction commits; the request succeeds and the transaction aborts
\* while committing (quota, I/O), which only a readwrite transaction can.
ReadOutcomes == {"openError", "requestError", "success"}
WriteOutcomes == ReadOutcomes \cup {"abortAfterSuccess"}

\* the promise resolves: openDB resolved and request.onsuccess ran
Resolves(outcome) == outcome \in {"success", "abortAfterSuccess"}

\* mutant: every failure of an operation is reported in the same words
RejectValueUniform(op, outcome) ==
    CASE op = "put" -> "Error saving capsule"
      [] op = "getAll" -> "Error fetching capsules"
      [] op = "delete" -> "Error deleting capsule"

\* the value the promise rejects with
RejectValue(op, outcome) ==
    IF outcome = "openError" THEN "Database error: "
    ELSE CASE op = "put" -> "Error saving capsule"
           [] op = "getAll" -> "Error fetching capsules"
           [] op = "delete" -> "Error deleting capsule"

\* what the caller's catch receives: nothing when the promise resolved
Rejection(op, outcome) ==
    IF Resolves(outcome) THEN Undefined ELSE RejectValue(op, outcome)

EmptyStore == [k \in {} |-> 0]

\* mutant: a put that leaves nothing else in the store
PutRecordAlone(st, rec) == [k \in {rec.id} |-> rec]

\* store.put on a store with keyPath 'id'
PutRecord(st, rec) ==
    [k \in DOMAIN st \cup {rec.id} |-> IF k = rec.id THEN rec ELSE st[k]]

\* store.delete(id)
DeleteRecord(st, id) == [k \in DOMAIN st \ {id} |-> st[k]]

\* mutant: the object is stored as it was passed
DataToStoreUnstripped(capsule) == capsule

\* const { mediaUrl, ...dataToStore } = capsule
DataToStore(capsule) == [f \in DOMAIN capsule \ {"mediaUrl"} |-> capsule[f]]

\* mutant: the record is written although the request failed
SaveCapsulePartial(st, capsule, outcome) ==
    IF outcome # "openError" THEN PutRecord(st, DataToStore(capsule)) ELSE st

\* the store after saveCapsule(capsule) ended with outcome
SaveCapsule(st, capsule, outcome) ==
    IF outcome = "success" THEN PutRecord(st, DataToStore(capsule)) ELSE st

\* mutant: the record is kept and stripped of its artifact
DeleteCapsuleTombstone(st, id, outcome) ==
    IF outcome = "success" /\ id \in DOMAIN st
    THEN [st EXCEPT ![id].mediaBlob = NoBlob, ![id].mediaType = "text"]
    ELSE st

\* the store after deleteCapsule(id) ended with outcome
DeleteCapsule(st, id, outcome) ==
    IF outcome = "success" THEN DeleteRecord(st, id) ELSE st

\* mutant: the stored flag is trusted
IsLockedAtStored(c, t) == c.isLocked

\* isLocked: new Date(c.unlockDate) > now
IsLockedAt(c, t) == DateTime(c.unlockDate) > t

\* one element of capsules.map(c => ({...c, isLocked, mediaUrl}))
Processed(c, t, url) ==
    [f \in DOMAIN c \cup {"isLocked", "mediaUrl"} |->
        IF f = "isLocked" THEN IsLockedAt(c, t)
        ELSE IF f = "mediaUrl" THEN url
        ELSE c[f]]

HasBlob(c) == c.mediaBlob # NoBlob

BlobCount(st) == Cardinality({k \in DOMAIN st : HasBlob(st[k])})

RECURSIVE ProcessFrom(_, _, _, _)
ProcessFrom(keys, st, t, u) ==
    IF keys = <<>> THEN <<>>
    ELSE LET c == st[Head(keys)]
             url == IF HasBlob(c) THEN u + 1 ELSE NoUrl
         IN <<Processed(c, t, url)>>
              \o ProcessFrom(Tail(keys), st, t, IF HasBlob(c) THEN u + 1 ELSE u)

\* what getAllCapsules resolves with: store.getAll() is in key order
GetAllCapsules(st, t, u) == ProcessFrom(SortedIds(DOMAIN st), st, t, u)

\* --------------------------------------------- storage.ts called directly
Blobs == {NoBlob, <<"image/png", 1>>}

\* capsules a caller of storage.ts can pass
Fixture(id, u, blob, locked) ==
    [id |-> id, title |-> "memo", description |-> "note",
     mediaType |-> IF blob = NoBlob THEN "text" ELSE "image",
     mediaBlob |-> blob, unlockDate |-> ToISOString(u),
     createdAt |-> ToISOString(0), isLocked |-> locked,
     aiHint |-> Undefined, aiReflection |-> ""]

\* The capsule under observation has key WatchedId and takes every
\* combination of unlock date, blob and written isLocked flag; the other
\* keys hold one capsule each and serve as interleaved traffic.
WatchedId == CHOOSE i \in Ids : \A j \in Ids : i <= j

Fixtures ==
    {Fixture(WatchedId, u, b, l) : u \in Times, b \in Blobs, l \in BOOLEAN}
    \cup {Fixture(id, 1, <<"image/png", 1>>, TRUE) : id \in Ids \ {WatchedId}}

\* the fields of a capsule that a save followed by a read must return
DurableFields ==
    {"id", "title", "description", "unlockDate", "createdAt",
     "mediaType", "mediaBlob"}

Durable(c) == [f \in DurableFields |-> c[f]]

SeqRange(s) == {s[i] : i \in 1..Len(s)}

\* withUrl: the object passed to saveCapsule carried an object URL
NoOp ==
    [op |-> "none", outcome |-> "none", id |-> 0, withUrl |-> FALSE,
     error |-> Undefined]

CarriesUrl(c) == "mediaUrl" \in DOMAIN c /\ c.mediaUrl # NoUrl

\* nothing stored, no storage call made
StorageEmpty ==
    /\ store = EmptyStore
    /\ now = 0
    /\ nextUrl = 0
    /\ lastOp = NoOp
    /\ readResult = <<>>
    /\ readAt = 0
    /\ acked = EmptyStore

\* the App not in use
AppIdle ==
    /\ idbQueue = <<>>
    /\ view = "DASHBOARD"
    /\ capsules = <<>>
    /\ selectedCapsule = <<>>
    /\ cards = EmptyStore
    /\ timeLeft = EmptyStore
    /\ isSubmitting = FALSE
    /\ enrich = {}
    /\ aiMode = "off"
    /\ usedIds = {}
    /\ minDate = 0
    /\ returnedEarly = FALSE
    /\ pendingShow = {}
    /\ missed = {}
    /\ failedSaves = {}
    /\ alerted = {}
    /\ saveCalls = EmptyStore
    /\ submitted = EmptyStore
    /\ formData = EmptyForm
    /\ refining = <<>>

RepoInit == StorageEmpty /\ AppIdle /\ ControllerInit

\* await saveCapsule(c): a fixture, or an object a read returned
RepoSave ==
    \E c \in Fixtures \cup SeqRange(readResult), outcome \in WriteOutcomes :
        /\ store' = SaveCapsule(store, c, outcome)
        /\ lastOp' = [op |-> "put", outcome |-> outcome, id |-> c.id,
                       withUrl |-> CarriesUrl(c),
                       error |-> Rejection("put", outcome)]
        /\ readResult' = <<>>
        /\ readAt' = 0
        /\ acked' = IF c.id # WatchedId THEN acked
                    ELSE IF Resolves(outcome)
                         THEN PutRecord(acked, Durable(c))
                    ELSE DeleteRecord(acked, c.id)
        /\ UNCHANGED <<now, nextUrl, appVars, histVars,
                       captureVars, formVars>>

\* await getAllCapsules()
RepoGetAll ==
    \E outcome \in ReadOutcomes :
        /\ nextUrl + BlobCount(store) <= MaxUrls
        /\ lastOp' = [op |-> "getAll", outcome |-> outcome, id |-> 0,
                       withUrl |-> FALSE,
                       error |-> Rejection("getAll", outcome)]
        /\ readAt' = IF Resolves(outcome) THEN now ELSE 0
        /\ readResult' = IF Resolves(outcome)
                         THEN GetAllCapsules(store, now, nextUrl) ELSE <<>>
        /\ nextUrl' = IF Resolves(outcome)
                      THEN nextUrl + BlobCount(store) ELSE nextUrl
        /\ UNCHANGED <<store, now, acked, appVars, histVars,
                       captureVars, formVars>>

\* await deleteCapsule(id)
RepoDelete ==
    \E id \in Ids, outcome \in WriteOutcomes :
        /\ store' = DeleteCapsule(store, id, outcome)
        /\ lastOp' = [op |-> "delete", outcome |-> outcome, id |-> id,
                       withUrl |-> FALSE,
                       error |-> Rejection("delete", outcome)]
        /\ readResult' = <<>>
        /\ readAt' = 0
        /\ acked' = DeleteRecord(acked, id)
        /\ UNCHANGED <<now, nextUrl, appVars, histVars,
                       captureVars, formVars>>

\* the wall clock advances
Tick ==
    /\ now < MaxTime
    /\ now' = now + 1
    /\ UNCHANGED <<store, nextUrl, repoVars, appVars, histVars,
                       captureVars, formVars>>

RepoNext == RepoSave \/ RepoGetAll \/ RepoDelete \/ Tick

RepoSpec == RepoInit /\ [][RepoNext]_vars

ReadResolved == lastOp.op = "getAll" /\ Resolves(lastOp.outcome)

\* C2: every capsule a read returns has isLocked = (unlockDate > now) for
\* the clock value of that read, whatever flag the record was written
\* with; a capsule whose unlockDate equals now is returned unlocked.
C2_IsLockedRecomputed ==
    ReadResolved =>
        \A i \in 1..Len(readResult) :
            /\ readResult[i].isLocked = (DateTime(readResult[i].unlockDate) > readAt)
            /\ DateTime(readResult[i].unlockDate) = readAt
                   => readResult[i].isLocked = FALSE

\* a read at the unlock instant returns, unlocked, a record stored locked
C2_Witness ==
    /\ ReadResolved
    /\ \E i \in 1..Len(readResult) :
          /\ DateTime(readResult[i].unlockDate) = readAt
          /\ readResult[i].isLocked = FALSE
          /\ store[readResult[i].id].isLocked = TRUE

\* C3: after a resolved saveCapsule(c), and whatever was saved or deleted
\* under other ids since, a resolved getAllCapsules returns a capsule with
\* c's id, title, description, unlockDate, createdAt, mediaType, mediaBlob.
C3_RoundTrip ==
    ReadResolved =>
        \A id \in DOMAIN acked :
            \E i \in 1..Len(readResult) : Durable(readResult[i]) = acked[id]

\* C8: no stored record has a mediaUrl field.
C8_NoStoredMediaUrl ==
    \A k \in DOMAIN store : "mediaUrl" \notin DOMAIN store[k]

\* an object that came from a read, carrying its object URL, was stored
C8_Witness ==
    /\ lastOp.op = "put" /\ lastOp.outcome = "success" /\ lastOp.withUrl
    /\ lastOp.id \in DOMAIN store

\* the transaction of the operation aborted
Aborted(outcome) == outcome \in {"requestError", "abortAfterSuccess"}

\* C11: a saveCapsule whose transaction aborted has rejected, also when the
\* abort came after the put request succeeded; a saveCapsule that resolved
\* has its record in the store.
C11_RejectsOnAbort ==
    lastOp.op = "put" =>
        /\ Aborted(lastOp.outcome) => ~Resolves(lastOp.outcome)
        /\ Resolves(lastOp.outcome) => lastOp.id \in DOMAIN store

\* C16: once deleteCapsule(id) has resolved, whether or not id was stored
\* and whether or not it was deleted before, what getAllCapsules returns has
\* no capsule with that id.
C16_DeletedStaysAbsent ==
    (lastOp.op = "delete" /\ Resolves(lastOp.outcome)) =>
        \A c \in SeqRange(GetAllCapsules(store, now, nextUrl)) :
            c.id # lastOp.id


\* C23: a saveCapsule that committed leaves the store with the keys it had
\* and the key of the capsule saved, so one record more for a new id and as
\* many for a stored id; the records under the other keys are as they
\* were, and the record under the saved key is the capsule saved.
C23_Upsert ==
    [][(lastOp'.op = "put" /\ lastOp'.outcome = "success" /\ now' = now) =>
          LET id == lastOp'.id IN
          /\ DOMAIN store' = DOMAIN store \cup {id}
          /\ Cardinality(DOMAIN store')
                = Cardinality(DOMAIN store) + IF id \in DOMAIN store THEN 0 ELSE 1
          /\ \A k \in DOMAIN store \ {id} : store'[k] = store[k]
          /\ id = WatchedId => Durable(store'[id]) = acked'[id]]_vars

\* a capsule that a read returned, so one that was stored, was saved again
\* over a full store
C23_Witness ==
    /\ lastOp.op = "put" /\ lastOp.outcome = "success" /\ lastOp.withUrl
    /\ lastOp.id = WatchedId
    /\ DOMAIN store = Ids

\* C24: an operation that failed to open the store rejected with a value
\* other than the one the same operation rejects with when its request
\* fails, and the other way round; a failed open leaves the store and the
\* object URLs as they were and returns nothing.
C24_DistinctErrors ==
    /\ [](lastOp.outcome = "openError" =>
             (/\ lastOp.error # Undefined
              /\ lastOp.error # RejectValue(lastOp.op, "requestError")
              /\ readResult = <<>>))
    /\ [](lastOp.outcome = "requestError" =>
             (/\ lastOp.error # Undefined
              /\ lastOp.error # RejectValue(lastOp.op, "openError")))
    /\ [][(lastOp'.outcome = "openError" /\ now' = now) =>
             (store' = store /\ nextUrl' = nextUrl)]_vars

\* a delete of a stored capsule failed at the open: the capsule is stored
C24_Witness ==
    /\ lastOp.op = "delete" /\ lastOp.outcome = "openError"
    /\ lastOp.error = "Database error: "
    /\ lastOp.id \in DOMAIN store

\* =====================================================================
\* The media-capture controller of CreateCapsule
\* =====================================================================
MaxAcquire == 2     \* getUserMedia calls
MaxRecTime == 2     \* ticks the elapsed-time counter is followed for

\* A handler runs with the variables of the render that created it: the
\* `stream` that cleanupMedia reads is the one of the render in which the
\* handler calling it (or calling startRecording) was created. Refs are
\* shared by all renders.

\* which of the three blocks the media section renders
Present == mediaFile # NoBlob
Controls == ~Present /\ recordingMode # "none"
Selection == ~Present /\ recordingMode = "none"

\* e.data of the one dataavailable event a stopped recorder fires: empty, or
\* one unit long and typed by the recorder's container
FragmentSizes == {0, 1}

FragmentTypes(prefix) ==
    IF prefix = "audio/webm" THEN {"audio/webm", "audio/ogg"}
    ELSE {"video/webm", "video/x-matroska"}

\* files the file input can deliver
Uploads ==
    {<<"image/png", 1>>, <<"audio/ogg", 1>>, <<"video/webm", 1>>,
     <<"application/pdf", 1>>, <<"", 1>>}

RECURSIVE TotalSize(_)
TotalSize(chunks) ==
    IF chunks = <<>> THEN 0 ELSE Head(chunks)[2] + TotalSize(Tail(chunks))

\* the File built by recorder.onstop
RecordedFile(chunks, mimeTypePrefix) ==
    LET mimeType == IF chunks # <<>> /\ Head(chunks)[1] # ""
                    THEN Head(chunks)[1] ELSE mimeTypePrefix
    IN <<mimeType, TotalSize(chunks)>>

\* all tracks of stream c ended: a recorder recording c stops by itself
TracksEnded(R, c) ==
    [s \in DOMAIN R |->
        IF s = c /\ R[s].state = "recording"
        THEN [R[s] EXCEPT !.state = "flushing"] ELSE R[s]]

\* cleanupMedia() of a render whose `stream` is c; R: the recorders before it
CleanupMedia(c, R) ==
    /\ liveStreams' = liveStreams \ {c}
    /\ stream' = IF c # NoStream THEN NoStream ELSE stream
    /\ recorders' = TracksEnded(R, c)
    /\ intervals' = intervals \ {timerRef}
    /\ timerRef' = NoTimer
    /\ isRecording' = FALSE
    /\ recordingTime' = 0
    /\ mediaError' = Null

NewRecorder(prefix, closure) ==
    [state |-> "recording", prefix |-> prefix, closure |-> closure,
     stopped |-> FALSE]

\* startRecording(currentStream, mimeTypePrefix) called from a render whose
\* `stream` is closure; ok: neither new MediaRecorder nor start() throws
StartRecording(currentStream, mimeTypePrefix, closure, ok) ==
    /\ chunksRef' = <<>>
    /\ IF ok
       THEN /\ recorders' =
                 [s \in DOMAIN recorders \cup {currentStream} |->
                     IF s = currentStream
                     THEN NewRecorder(mimeTypePrefix, closure)
                     ELSE recorders[s]]
            /\ mediaRecorderRef' = currentStream
            /\ isRecording' = TRUE
            /\ timerRef' = currentStream
            /\ intervals' = intervals \cup {currentStream}
            /\ UNCHANGED mediaError
       ELSE /\ mediaError' = "Failed to start recording."
            /\ UNCHANGED <<recorders, mediaRecorderRef, isRecording, timerRef,
                           intervals>>

\* React unmounts CreateCapsule: the cleanup of the effect that ran after
\* the first render calls the cleanupMedia of that render, whose `stream`
\* is null
UnmountController ==
    /\ CleanupMedia(NoStream, recorders)
    /\ UNCHANGED <<recordingMode, mediaRecorderRef, chunksRef, mediaFile,
                   fileOrigin, acquisitions, nextStream>>

\* React mounts a CreateCapsule: its state and refs are new, and what the
\* browser still runs for an earlier one goes on
MountController ==
    /\ recordingMode' = "none"
    /\ isRecording' = FALSE
    /\ recordingTime' = 0
    /\ stream' = NoStream
    /\ mediaError' = Null
    /\ mediaRecorderRef' = NoRecorder
    /\ chunksRef' = <<>>
    /\ timerRef' = NoTimer
    /\ mediaFile' = NoBlob
    /\ fileOrigin' = "none"
    /\ UNCHANGED <<liveStreams, acquisitions, recorders, intervals, nextStream>>

\* =====================================================================
\* The App orchestrator (App, VaultDashboard, CapsuleCard, and the
\* submission path of CreateCapsule)
\* =====================================================================
MaxCreates == 1     \* submissions that reach handleSubmit's try block

CapsuleIds == 1..MaxCreates

IdsOf(list) == {list[i].id : i \in 1..Len(list)}

\* ---------------------------------------------------- services/gemini.ts
\* generateCapsuleHint: its resolved value ("empty": the model answered
\* with no text)
GenerateCapsuleHint(mode, mediaType) ==
    CASE mode = "off" -> "A mysterious memory from the past..."
      [] mode = "fail" -> "A securely sealed memory."
      [] mode = "empty" -> IF mediaType = "image"
                           THEN "A locked visual memory."
                           ELSE "A voice echoing from yesterday."
      [] OTHER -> "a poetic clue"

\* generateFutureReflection: its resolved value
GenerateFutureReflection(mode) ==
    IF mode = "ok" THEN "an inspiring question" ELSE ""

\* refineUserNote: its resolved value
RefineUserNote(mode, currentNote) ==
    IF mode = "ok" THEN "a refined note" ELSE currentNote

\* ------------------------------------------------------------- App.tsx
\* the comparator of loadCapsules' sort: a negative, zero or positive number
Compare(a, b) ==
    IF a.isLocked = b.isLocked
    THEN DateTime(a.unlockDate) - DateTime(b.unlockDate)
    ELSE IF a.isLocked THEN 1 ELSE -1

\* mutant: a sort that puts x in front of its equals
RECURSIVE InsertSortedUnstable(_, _)
InsertSortedUnstable(sorted, x) ==
    IF sorted = <<>> THEN <<x>>
    ELSE IF Compare(Head(sorted), x) < 0
         THEN <<Head(sorted)>> \o InsertSortedUnstable(Tail(sorted), x)
         ELSE <<x>> \o sorted

\* Array.prototype.sort is stable: x goes behind everything not after it
RECURSIVE InsertSorted(_, _)
InsertSorted(sorted, x) ==
    IF sorted = <<>> THEN <<x>>
    ELSE IF Compare(Head(sorted), x) <= 0
         THEN <<Head(sorted)>> \o InsertSorted(Tail(sorted), x)
         ELSE <<x>> \o sorted

RECURSIVE SortCapsules(_)
SortCapsules(data) ==
    IF data = <<>> THEN <<>>
    ELSE InsertSorted(SortCapsules(SubSeq(data, 1, Len(data) - 1)),
                      data[Len(data)])

\* the mediaType handleCreateSubmit derives from data.mediaFile
MediaTypeOf(file) ==
    IF file = NoBlob THEN "text"
    ELSE IF StartsWith(file[1], "image") THEN "image"
    ELSE IF StartsWith(file[1], "audio") THEN "audio"
    ELSE "video"

\* the type handleSubmit passes to generateCapsuleHint
HintTypeOf(file) ==
    IF StartsWith(file[1], "image") THEN "image"
    ELSE IF StartsWith(file[1], "audio") THEN "audio"
    ELSE "video"

\* mutant: the note is kept only when a reflection came back
NewCapsuleNoteLost(id, data, aiHint, reflection, t) ==
    [id |-> id, title |-> data.title,
     description |-> IF reflection = "" THEN "" ELSE data.description,
     mediaType |-> MediaTypeOf(data.mediaFile), mediaBlob |-> data.mediaFile,
     unlockDate |-> data.unlockDate, createdAt |-> ToISOString(t),
     isLocked |-> TRUE, aiHint |-> aiHint, aiReflection |-> reflection]

\* const newCapsule: Capsule = {...}
NewCapsule(id, data, aiHint, reflection, t) ==
    [id |-> id, title |-> data.title, description |-> data.description,
     mediaType |-> MediaTypeOf(data.mediaFile), mediaBlob |-> data.mediaFile,
     unlockDate |-> data.unlockDate, createdAt |-> ToISOString(t),
     isLocked |-> TRUE, aiHint |-> aiHint, aiReflection |-> reflection]

\* ------------------------------------------------------ CapsuleCard.tsx
\* the clock counts milliseconds, as Date.prototype.getTime does
MsPerSecond == 1000
MsPerMinute == 1000 * 60
MsPerHour == 1000 * 60 * 60
MsPerDay == 1000 * 60 * 60 * 24

\* useState<string>(''): nothing shown
NoTimeLeft == <<>>

\* setTimeLeft('UNLOCKED')
Unlocked == <<"UNLOCKED">>

\* mutant: the seconds are rounded up
TimeLeftRoundedUp(unlockDate, t) ==
    LET distance == DateTime(unlockDate) - t
    IN IF distance < 0 THEN Unlocked
       ELSE <<distance \div MsPerDay,
              (distance % MsPerDay) \div MsPerHour,
              (distance % MsPerHour) \div MsPerMinute,
              ((distance % MsPerMinute) + MsPerSecond - 1) \div MsPerSecond>>

\* calculateTimeLeft: the timeLeft it sets, `${days}d ${hours}h ${minutes}m
\* ${seconds}s` as <<days, hours, minutes, seconds>>
TimeLeft(unlockDate, t) ==
    LET distance == DateTime(unlockDate) - t
    IN IF distance < 0 THEN Unlocked
       ELSE <<distance \div MsPerDay,
              (distance % MsPerDay) \div MsPerHour,
              (distance % MsPerHour) \div MsPerMinute,
              (distance % MsPerMinute) \div MsPerSecond>>

\* mutant: the card unlocks one tick before the unlock date
CardIsLockedEarly(unlockDate, t) ==
    LET distance == DateTime(unlockDate) - t
    IN distance > 1

\* calculateTimeLeft: the isLocked it sets
CardIsLocked(unlockDate, t) ==
    LET distance == DateTime(unlockDate) - t
    IN ~(distance < 0)

CapsuleById(list, id) ==
    list[CHOOSE i \in 1..Len(list) : list[i].id = id]

\* the cards of a rendered dashboard: a card already mounted under the same
\* key keeps its state, a new one starts from useState(capsule.isLocked)
MountCards(list, old) ==
    [id \in IdsOf(list) |->
        IF id \in DOMAIN old THEN old[id] ELSE CapsuleById(list, id).isLocked]

CardsFor(v, list, old) ==
    IF v = "DASHBOARD" THEN MountCards(list, old) ELSE EmptyStore

\* what the cards of a rendered dashboard show: a card newly mounted shows
\* nothing until its effect has run
MountTimeLeft(list, old) ==
    [id \in IdsOf(list) |-> IF id \in DOMAIN old THEN old[id] ELSE NoTimeLeft]

TimeLeftFor(v, list, old) ==
    IF v = "DASHBOARD" THEN MountTimeLeft(list, old) ELSE EmptyStore

\* ------------------------------------------------- storage calls in flight
NoCapsule == [id |-> 0]

\* k: what the caller does when the promise settles; mounted: the
\* CreateCapsule whose handleSubmit awaits this call is still mounted
PutCall(c, m) ==
    [op |-> "put", capsule |-> c, id |-> c.id, k |-> "create", mounted |-> m]
GetAllCall(k, id, m) ==
    [op |-> "getAll", capsule |-> NoCapsule, id |-> id, k |-> k, mounted |-> m]
DeleteCall(id) ==
    [op |-> "delete", capsule |-> NoCapsule, id |-> id, k |-> "delete",
     mounted |-> FALSE]

\* CreateCapsule unmounts: what its handleSubmit still awaits goes on, but
\* its setIsSubmitting no longer reaches a mounted component
UnmountedQueue(q) == [i \in DOMAIN q |-> [q[i] EXCEPT !.mounted = FALSE]]
UnmountedEnrich(E) == {[e EXCEPT !.mounted = FALSE] : e \in E}

\* ---------------------------------------------------------- the form
\* formData at submission. The date input's min attribute is computed at the
\* last render, so a form left open can submit any date from then on.
Forms ==
    {[title |-> ti, description |-> k[1], unlockDate |-> u, mediaFile |-> k[2]] :
        ti \in {"", "Title"},
        k \in {<<"note", NoBlob>>, <<"", <<"image/png", 1>>>>},
        u \in {<<>>} \cup {ToISOString(t) : t \in Times}}

Init ==
    /\ StorageEmpty
    /\ ControllerInit
    /\ idbQueue = <<GetAllCall("load", 0, FALSE)>>   \* useEffect: loadCapsules()
    /\ view = "DASHBOARD"
    /\ capsules = <<>>
    /\ selectedCapsule = <<>>
    /\ cards = EmptyStore
    /\ timeLeft = EmptyStore
    /\ isSubmitting = FALSE
    /\ enrich = {}
    /\ aiMode = "ok"       \* every other behaviour: CreateSpec
    /\ usedIds = {}
    /\ minDate = 0
    /\ returnedEarly = FALSE
    /\ pendingShow = {}
    /\ missed = {}
    /\ failedSaves = {}
    /\ alerted = {}
    /\ saveCalls = EmptyStore
    /\ submitted = EmptyStore
    /\ formData = EmptyForm
    /\ refining = <<>>

\* ------------------------------------------------ CreateCapsule -> App
InFlight == Cardinality(usedIds) + Cardinality(enrich)

FreeTicket == CHOOSE n \in 1..(MaxCreates + 1) : \A e \in enrich : e.ticket # n

Counted(calls, id) ==
    [k \in DOMAIN calls \cup {id} |->
        IF k = id THEN (IF id \in DOMAIN calls THEN calls[id] ELSE 0) + 1
        ELSE calls[k]]

\* the arguments of handleCreateSubmit that came from the user, kept for
\* as long as the capsule built from them is being saved or is stored
SubmittedData(id, data) ==
    [id |-> id, title |-> data.title, description |-> data.description,
     unlockDate |-> data.unlockDate, mediaFile |-> data.mediaFile]

\* handleCreateSubmit from 'let mediaType' on: builds newCapsule and calls
\* db.saveCapsule(newCapsule); q is the queue the call is added to
BuildAndSave(data, aiHint, reflection, m, q) ==
    \E id \in CapsuleIds \ usedIds :
        /\ usedIds' = usedIds \cup {id}
        /\ idbQueue' = Append(q, PutCall(NewCapsule(id, data, aiHint, reflection, now), m))
        /\ saveCalls' = Counted(saveCalls, id)
        /\ submitted' = PutRecord(submitted, SubmittedData(id, data))

\* handleCreateSubmit(data, aiHint) up to its first await; E is enrich
\* without the call that just settled
HandleCreateSubmit(data, aiHint, m, E) ==
    IF data.description # ""
    THEN /\ enrich' = E \cup {[stage |-> "reflect", data |-> data,
                               aiHint |-> aiHint, mounted |-> m,
                               ticket |-> FreeTicket]}
         /\ UNCHANGED <<idbQueue, usedIds, saveCalls, submitted>>
    ELSE /\ enrich' = E
         /\ BuildAndSave(data, aiHint, Undefined, m, idbQueue)

\* The date input's min: the browser fires no submit event while the value
\* is earlier than the min attribute, which each render of CreateCapsule
\* sets to the time of that render; a value equal to it passes.
MinSatisfied(unlockDate, min) ==
    IF unlockDate = <<>> THEN TRUE ELSE DateTime(unlockDate) >= min

\* mutant: only the unlock date is looked at
IncompleteDateOnly(data) == data.unlockDate = <<>>

\* if (!formData.title || !formData.unlockDate) return
Incomplete(data) == data.title = "" \/ data.unlockDate = <<>>

\* CreateCapsule.handleSubmit up to its first await, formData being data
Submit(data) ==
        /\ view = "CREATE"
        /\ ~isSubmitting
        /\ InFlight < MaxCreates
        /\ MinSatisfied(data.unlockDate, minDate)
        /\ IF Incomplete(data)
           THEN /\ returnedEarly' = TRUE
                /\ UNCHANGED <<envVars, repoVars, histVars, captureVars,
                               formVars, idbQueue, view, capsules,
                               selectedCapsule, cards, timeLeft, isSubmitting, enrich,
                               aiMode, usedIds, minDate>>
           ELSE /\ isSubmitting' = TRUE
                /\ minDate' = now
                /\ returnedEarly' = FALSE
                /\ IF data.mediaFile # NoBlob
                   THEN /\ enrich' = enrich \cup
                              {[stage |-> "hint", data |-> data,
                                aiHint |-> Undefined, mounted |-> TRUE,
                                ticket |-> FreeTicket]}
                        /\ UNCHANGED <<idbQueue, usedIds, saveCalls, submitted>>
                   ELSE HandleCreateSubmit(data, Undefined, TRUE, enrich)
                /\ UNCHANGED <<envVars, repoVars, view, capsules,
                               selectedCapsule, cards, timeLeft, aiMode,
                               pendingShow, missed, failedSaves, alerted,
                       captureVars, formVars>>

\* the form submitted with any contents
HandleSubmit == \E data \in Forms : Submit(data)

\* generateCapsuleHint settles; handleSubmit goes on to onSubmit
HintSettles ==
    \E e \in enrich :
        /\ e.stage = "hint"
        /\ HandleCreateSubmit(e.data,
                              GenerateCapsuleHint(aiMode, HintTypeOf(e.data.mediaFile)),
                              e.mounted, enrich \ {e})
        /\ UNCHANGED <<envVars, repoVars, view, capsules, selectedCapsule,
                       cards, timeLeft, isSubmitting, aiMode, minDate, returnedEarly,
                       pendingShow, missed, failedSaves, alerted,
                       captureVars, formVars>>

\* generateFutureReflection settles; handleCreateSubmit goes on to the save
ReflectionSettles ==
    \E e \in enrich :
        /\ e.stage = "reflect"
        /\ enrich' = enrich \ {e}
        /\ BuildAndSave(e.data, e.aiHint, GenerateFutureReflection(aiMode),
                        e.mounted, idbQueue)
        /\ UNCHANGED <<envVars, repoVars, view, capsules, selectedCapsule,
                       cards, timeLeft, isSubmitting, aiMode, minDate, returnedEarly,
                       pendingShow, missed, failedSaves, alerted,
                       captureVars, formVars>>

\* db.saveCapsule settles inside handleCreateSubmit: resolved, it goes on to
\* loadCapsules; rejected, the error reaches handleSubmit's catch (alert) and
\* finally (setIsSubmitting(false))
SaveSettles ==
    \E outcome \in WriteOutcomes :
        /\ idbQueue # <<>>
        /\ Head(idbQueue).op = "put"
        /\ LET call == Head(idbQueue) IN
            /\ store' = SaveCapsule(store, call.capsule, outcome)
            /\ IF Resolves(outcome)
               THEN /\ idbQueue' = Append(Tail(idbQueue),
                                          GetAllCall("create", call.id, call.mounted))
                    /\ pendingShow' = pendingShow \cup {call.id}
                    /\ UNCHANGED <<isSubmitting, minDate, failedSaves, alerted,
                                   submitted>>
               ELSE /\ idbQueue' = Tail(idbQueue)
                    /\ failedSaves' = failedSaves \cup {call.id}
                    /\ alerted' = alerted \cup {call.id}
                    /\ isSubmitting' = IF call.mounted THEN FALSE ELSE isSubmitting
                    /\ minDate' = IF call.mounted THEN now ELSE minDate
                    /\ submitted' = DeleteRecord(submitted, call.id)
                    /\ UNCHANGED pendingShow
        /\ UNCHANGED <<now, nextUrl, repoVars, view, capsules, selectedCapsule,
                       cards, timeLeft, enrich, aiMode, usedIds, returnedEarly, missed,
                       saveCalls,
                       captureVars, formVars>>

\* db.getAllCapsules settles inside loadCapsules: resolved, the sorted list is
\* displayed; rejected, the error is logged. Called from handleCreateSubmit,
\* setView('DASHBOARD') follows, which unmounts CreateCapsule.
LoadSettles ==
    \E outcome \in ReadOutcomes :
        /\ idbQueue # <<>>
        /\ Head(idbQueue).op = "getAll"
        /\ nextUrl + BlobCount(store) <= MaxUrls
        /\ LET call == Head(idbQueue)
               toDashboard == call.k = "create"
               leavesCreate == toDashboard /\ view = "CREATE"
           IN
            /\ capsules' = IF Resolves(outcome)
                           THEN SortCapsules(GetAllCapsules(store, now, nextUrl))
                           ELSE capsules
            /\ nextUrl' = IF Resolves(outcome)
                          THEN nextUrl + BlobCount(store) ELSE nextUrl
            /\ pendingShow' = IF Resolves(outcome) THEN {} ELSE pendingShow
            /\ missed' = IF Resolves(outcome)
                         THEN missed \cup (pendingShow \ IdsOf(capsules'))
                         ELSE missed
            /\ view' = IF toDashboard THEN "DASHBOARD" ELSE view
            /\ cards' = CardsFor(view', capsules', cards)
            /\ timeLeft' = TimeLeftFor(view', capsules', timeLeft)
            /\ idbQueue' = IF leavesCreate THEN UnmountedQueue(Tail(idbQueue))
                           ELSE Tail(idbQueue)
            /\ enrich' = IF leavesCreate THEN UnmountedEnrich(enrich) ELSE enrich
            /\ isSubmitting' = IF leavesCreate \/ call.mounted THEN FALSE
                               ELSE isSubmitting
            /\ minDate' = IF leavesCreate THEN 0 ELSE minDate
            /\ returnedEarly' = IF leavesCreate THEN FALSE ELSE returnedEarly
            /\ IF leavesCreate THEN UnmountController
               ELSE UNCHANGED captureVars
        /\ UNCHANGED <<store, now, repoVars, selectedCapsule, aiMode, usedIds,
                       failedSaves, alerted, saveCalls, submitted, formVars>>

\* db.deleteCapsule settles inside handleDelete: resolved, loadCapsules
\* follows; rejected, handleDelete ends there
DeleteSettles ==
    \E outcome \in WriteOutcomes :
        /\ idbQueue # <<>>
        /\ Head(idbQueue).op = "delete"
        /\ LET call == Head(idbQueue) IN
            /\ store' = DeleteCapsule(store, call.id, outcome)
            /\ idbQueue' = IF Resolves(outcome)
                           THEN Append(Tail(idbQueue), GetAllCall("load", 0, FALSE))
                           ELSE Tail(idbQueue)
            /\ submitted' = IF outcome = "success"
                             THEN DeleteRecord(submitted, call.id) ELSE submitted
        /\ UNCHANGED <<now, nextUrl, repoVars, view, capsules, selectedCapsule,
                       cards, timeLeft, isSubmitting, enrich, aiMode, usedIds, minDate,
                       returnedEarly, pendingShow, missed, failedSaves, alerted,
                       saveCalls, captureVars, formVars>>

\* handleDelete, the user confirming: db.deleteCapsule(id) is called. The
\* user confirms one deletion at a time.
HandleDelete ==
    \E id \in DOMAIN cards :
        /\ view = "DASHBOARD"
        /\ Len(idbQueue) < MaxQueue
        /\ \A i \in DOMAIN idbQueue : idbQueue[i].op # "delete"
        /\ idbQueue' = Append(idbQueue, DeleteCall(id))
        /\ UNCHANGED <<envVars, repoVars, view, capsules, selectedCapsule,
                       cards, timeLeft, isSubmitting, enrich, aiMode, usedIds, minDate,
                       returnedEarly,
                       histVars,
                       captureVars, formVars>>

\* the card's Open Vault button, rendered when the card is not locked
HandleOpenCapsule ==
    \E id \in DOMAIN cards :
        /\ view = "DASHBOARD"
        /\ ~cards[id]
        /\ selectedCapsule' = <<CapsuleById(capsules, id)>>
        /\ view' = "VIEW_CAPSULE"
        /\ cards' = EmptyStore
        /\ timeLeft' = EmptyStore
        /\ UNCHANGED <<envVars, repoVars, idbQueue, capsules, isSubmitting,
                       enrich, aiMode, usedIds, minDate, returnedEarly,
                       histVars,
                       captureVars, formVars>>

\* a card's effect, at mount and on each tick of its interval
CalculateTimeLeft ==
    \E id \in DOMAIN cards :
        /\ cards' = [cards EXCEPT
                       ![id] = CardIsLocked(CapsuleById(capsules, id).unlockDate, now)]
        /\ timeLeft' = [timeLeft EXCEPT
                          ![id] = TimeLeft(CapsuleById(capsules, id).unlockDate, now)]
        /\ UNCHANGED <<envVars, repoVars, idbQueue, view, capsules,
                       selectedCapsule, isSubmitting, enrich, aiMode,
                       usedIds, minDate, returnedEarly, histVars,
                       captureVars, formVars>>

\* onCreateNew: setView('CREATE') mounts a fresh CreateCapsule
OnCreateNew ==
    /\ view = "DASHBOARD"
    /\ view' = "CREATE"
    /\ cards' = EmptyStore
    /\ timeLeft' = EmptyStore
    /\ isSubmitting' = FALSE
    /\ minDate' = now
    /\ returnedEarly' = FALSE
    /\ formData' = EmptyForm
    /\ refining' = <<>>
    /\ MountController
    /\ UNCHANGED <<envVars, repoVars, idbQueue, capsules, selectedCapsule,
                   enrich, aiMode, usedIds, histVars>>

\* setView('DASHBOARD'): Back to Dashboard, the viewer's close button, or the
\* header logo
ToDashboard ==
    /\ view # "DASHBOARD"
    /\ view' = "DASHBOARD"
    /\ cards' = MountCards(capsules, EmptyStore)
    /\ timeLeft' = MountTimeLeft(capsules, EmptyStore)
    /\ isSubmitting' = FALSE
    /\ minDate' = 0
    /\ returnedEarly' = FALSE
    /\ idbQueue' = IF view = "CREATE" THEN UnmountedQueue(idbQueue) ELSE idbQueue
    /\ enrich' = IF view = "CREATE" THEN UnmountedEnrich(enrich) ELSE enrich
    /\ IF view = "CREATE" THEN UnmountController ELSE UNCHANGED captureVars
    /\ UNCHANGED <<envVars, repoVars, capsules, selectedCapsule, aiMode,
                   usedIds, histVars, formVars>>

Next ==
    \/ HandleSubmit \/ HintSettles \/ ReflectionSettles
    \/ SaveSettles \/ LoadSettles \/ DeleteSettles
    \/ HandleDelete \/ HandleOpenCapsule \/ CalculateTimeLeft
    \/ OnCreateNew \/ ToDashboard \/ Tick

Spec == Init /\ [][Next]_vars

Openable(id) == id \in DOMAIN cards /\ ~cards[id]

ViewerOpen == view = "VIEW_CAPSULE" /\ selectedCapsule # <<>>

\* C1: a capsule is openable (its card offers Open Vault), and is open in
\* the viewer, only if its unlockDate is not later than the current time.
C1_TimeGate ==
    /\ \A id \in DOMAIN cards :
          Openable(id) => DateTime(CapsuleById(capsules, id).unlockDate) <= now
    /\ ViewerOpen => DateTime(selectedCapsule[1].unlockDate) <= now

\* the viewer shows a capsule that was created before its unlock date
C1_Witness ==
    /\ ViewerOpen
    /\ DateTime(selectedCapsule[1].createdAt) < DateTime(selectedCapsule[1].unlockDate)

\* C9: inside handleCreateSubmit no getAllCapsules is issued while the save
\* of the new capsule is unsettled, and the first list displayed after a
\* resolved save contains the new capsule.
C9_SavedThenListed ==
    /\ \A i, j \in DOMAIN idbQueue :
          (idbQueue[i].op = "getAll" /\ idbQueue[i].k = "create"
             /\ idbQueue[j].op = "put")
          => idbQueue[i].id # idbQueue[j].id
    /\ missed = {}

\* C10: a capsule whose save rejected was alerted to the user, was saved
\* once only, and is neither in the store nor in the displayed list.
C10_NoPartialCommit ==
    \A id \in failedSaves :
        /\ id \in alerted
        /\ saveCalls[id] = 1
        /\ id \notin DOMAIN store
        /\ id \notin IdsOf(capsules)

\* a save rejected and the form is ready for the user's own retry
C10_Witness ==
    /\ failedSaves # {}
    /\ view = "CREATE"
    /\ ~isSubmitting
    /\ idbQueue = <<>>

\* capsules handed to the enrichment collaborator or to saveCapsule and
\* still in flight, as form data or as built capsule
InFlightData ==
    {[title |-> e.data.title, unlockDate |-> e.data.unlockDate] : e \in enrich}
    \cup {[title |-> idbQueue[i].capsule.title,
            unlockDate |-> idbQueue[i].capsule.unlockDate] :
              i \in {j \in DOMAIN idbQueue : idbQueue[j].op = "put"}}

\* C13: no stored capsule, and no capsule on its way through enrichment or
\* saveCapsule, has an empty title or a missing unlockDate; a submission
\* with either field empty calls neither.
C13_CompleteOnly ==
    /\ \A k \in DOMAIN store :
          store[k].title # "" /\ store[k].unlockDate # <<>>
    /\ \A d \in InFlightData : d.title # "" /\ d.unlockDate # <<>>
    /\ returnedEarly => ~isSubmitting

\* a submission ended at the guard: nothing was called, nothing is stored
C13_Witness ==
    /\ returnedEarly
    /\ enrich = {}
    /\ idbQueue = <<>>
    /\ store = EmptyStore
    /\ saveCalls = EmptyStore

\* an enrichment field left empty: absent or the empty string
EmptyText(x) == x \in {Undefined, ""}

\* C15: with the enrichment collaborator failing, every saved capsule, with
\* or without media, has aiHint and aiReflection empty.
C15_EmptyEnrichment ==
    aiMode = "fail" =>
        \A k \in DOMAIN store :
            EmptyText(store[k].aiHint) /\ EmptyText(store[k].aiReflection)

\* C12: every capsule the create path persisted has its unlockDate later
\* than its creation time.
C12_FutureUnlockOnly ==
    \A k \in DOMAIN store :
        DateTime(store[k].unlockDate) > DateTime(store[k].createdAt)

\* C19: whenever calculateTimeLeft changes what a mounted card shows, the
\* card is locked exactly when getAllCapsules, read at that instant, has the
\* capsule locked; at now = unlockDate the card shows the capsule unlocked.
C19_CardAgreesWithRead ==
    [][\A id \in DOMAIN cards \cap DOMAIN cards' :
          (now' = now /\ capsules' = capsules /\ cards'[id] # cards[id])
              => cards'[id] = IsLockedAt(CapsuleById(capsules, id), now)]_vars

\* URL.createObjectURL is the only call on object URLs in the program and
\* URL.revokeObjectURL is never called: every handle handed out stays live
LiveUrls == nextUrl

\* the listed capsules that carry an artifact
ListedWithBlob == {i \in 1..Len(capsules) : HasBlob(capsules[i])}

\* C21: the live object-URL handles never outnumber the listed capsules
\* that have a mediaBlob.
C21_HandlesReleased == LiveUrls <= Cardinality(ListedWithBlob)

\* the fields of a record that are fixed at creation
ImmutableFields == {"unlockDate", "createdAt", "title", "mediaType", "mediaBlob"}

\* C22: saveCapsule is called at most once per id, and a record that is
\* stored before and after a step has the same unlockDate, createdAt, title,
\* mediaType and mediaBlob after it as before.
C22_ImmutableAfterCreation ==
    /\ [](\A id \in DOMAIN saveCalls : saveCalls[id] <= 1)
    /\ [][\A id \in DOMAIN store \cap DOMAIN store' :
             \A f \in ImmutableFields : store'[id][f] = store[id][f]]_vars

\* a stored capsule has been listed and opened after time passed since
\* its creation: it is stored as it was submitted
C22_Witness ==
    \E id \in DOMAIN store :
        /\ saveCalls[id] = 1
        /\ id \in IdsOf(capsules)
        /\ now > DateTime(store[id].createdAt)
        /\ view = "VIEW_CAPSULE"
        /\ store[id].title = submitted[id].title
        /\ store[id].unlockDate = submitted[id].unlockDate
        /\ store[id].mediaBlob = submitted[id].mediaFile

\* =====================================================================
\* The handlers of the media-capture controller
\* =====================================================================
otherVars == <<envVars, repoVars, appVars, histVars, formVars>>

CaptureInit == StorageEmpty /\ AppIdle /\ ControllerInit

\* startAudioMode up to its await
StartAudioMode ==
    /\ Selection
    /\ nextStream < MaxAcquire
    /\ recordingMode' = "audio"
    /\ nextStream' = nextStream + 1
    /\ acquisitions' = acquisitions \cup
           {[id |-> nextStream + 1, kind |-> "audio", closure |-> stream]}
    /\ UNCHANGED <<isRecording, recordingTime, stream, mediaError,
                   mediaRecorderRef, chunksRef, timerRef, mediaFile, fileOrigin,
                   liveStreams, recorders, intervals, otherVars>>

\* startVideoMode up to its await
StartVideoMode ==
    /\ Selection
    /\ nextStream < MaxAcquire
    /\ recordingMode' = "video"
    /\ nextStream' = nextStream + 1
    /\ acquisitions' = acquisitions \cup
           {[id |-> nextStream + 1, kind |-> "video", closure |-> NoStream]}
    /\ UNCHANGED <<isRecording, recordingTime, stream, mediaError,
                   mediaRecorderRef, chunksRef, timerRef, mediaFile, fileOrigin,
                   liveStreams, recorders, intervals, otherVars>>

\* getUserMedia settles and startAudioMode / startVideoMode runs to its end
AcquisitionSettles ==
    \E a \in acquisitions, granted \in BOOLEAN, ok \in BOOLEAN :
        /\ acquisitions' = acquisitions \ {a}
        /\ IF ~granted
           THEN /\ mediaError' = IF a.kind = "audio"
                                 THEN "Could not access microphone."
                                 ELSE "Could not access camera/microphone."
                /\ UNCHANGED <<stream, liveStreams, chunksRef, recorders,
                               mediaRecorderRef, isRecording, timerRef, intervals>>
           ELSE /\ liveStreams' = liveStreams \cup {a.id}
                /\ stream' = a.id
                /\ IF a.kind = "audio"
                   THEN StartRecording(a.id, "audio/webm", a.closure, ok)
                   ELSE UNCHANGED <<mediaError, chunksRef, recorders,
                                    mediaRecorderRef, isRecording, timerRef,
                                    intervals>>
        /\ UNCHANGED <<recordingMode, recordingTime, mediaFile, fileOrigin,
                       nextStream, otherVars>>

\* the red button of the armed video state
StartVideoRecording ==
    \E ok \in BOOLEAN :
        /\ Controls
        /\ mediaError = Null
        /\ ~isRecording /\ recordingMode = "video"
        /\ IF stream # NoStream
           THEN StartRecording(stream, "video/webm", stream,
                               ok /\ stream \in liveStreams)
           ELSE UNCHANGED <<chunksRef, recorders, mediaRecorderRef, isRecording,
                            timerRef, intervals, mediaError>>
        /\ UNCHANGED <<recordingMode, recordingTime, stream, mediaFile,
                       fileOrigin, liveStreams, acquisitions, nextStream,
                       otherVars>>

\* stopRecording: the square button
StopRecording ==
    /\ Controls
    /\ mediaError = Null
    /\ ~(~isRecording /\ recordingMode = "video")
    /\ recorders' =
         IF /\ mediaRecorderRef # NoRecorder
            /\ isRecording
            /\ recorders[mediaRecorderRef].state = "recording"
         THEN [recorders EXCEPT ![mediaRecorderRef] =
                  [@ EXCEPT !.state = "flushing", !.stopped = TRUE]]
         ELSE recorders
    /\ UNCHANGED <<recordingMode, isRecording, recordingTime, stream, mediaError,
                   mediaRecorderRef, chunksRef, timerRef, mediaFile, fileOrigin,
                   liveStreams, acquisitions, intervals, nextStream, otherVars>>

\* recorder.ondataavailable
OnDataAvailable ==
    \E s \in DOMAIN recorders, size \in FragmentSizes :
      \E type \in FragmentTypes(recorders[s].prefix) :
        /\ recorders[s].state = "flushing"
        /\ recorders' = [recorders EXCEPT ![s].state = "stopping"]
        /\ chunksRef' = IF size > 0 THEN Append(chunksRef, <<type, size>>)
                        ELSE chunksRef
        /\ UNCHANGED <<recordingMode, isRecording, recordingTime, stream,
                       mediaError, mediaRecorderRef, timerRef, mediaFile,
                       fileOrigin, liveStreams, acquisitions, intervals,
                       nextStream, otherVars>>

\* recorder.onstop
OnStop ==
    \E s \in DOMAIN recorders :
        /\ recorders[s].state = "stopping"
        /\ mediaFile' = RecordedFile(chunksRef, recorders[s].prefix)
        /\ fileOrigin' = "recording"
        /\ CleanupMedia(recorders[s].closure,
                        [recorders EXCEPT ![s].state = "inactive"])
        /\ UNCHANGED <<recordingMode, mediaRecorderRef, chunksRef, acquisitions,
                       nextStream, otherVars>>

\* cancelRecording: the X button, or Cancel on the error panel
CancelRecording ==
    /\ Controls
    /\ CleanupMedia(stream, recorders)
    /\ recordingMode' = "none"
    /\ UNCHANGED <<mediaRecorderRef, chunksRef, mediaFile, fileOrigin,
                   acquisitions, nextStream, otherVars>>

\* clearMedia: the bin button next to the attached file
ClearMedia ==
    /\ Present
    /\ mediaFile' = NoBlob
    /\ fileOrigin' = "none"
    /\ CleanupMedia(stream, recorders)
    /\ recordingMode' = "none"
    /\ UNCHANGED <<mediaRecorderRef, chunksRef, acquisitions, nextStream,
                   otherVars>>

\* handleFileChange with a file chosen
HandleFileChange ==
    \E file \in Uploads :
        /\ Selection
        /\ mediaFile' = file
        /\ fileOrigin' = "upload"
        /\ UNCHANGED <<recordingMode, isRecording, recordingTime, stream,
                       mediaError, mediaRecorderRef, chunksRef, timerRef,
                       liveStreams, acquisitions, recorders, intervals,
                       nextStream, otherVars>>

\* the callback of a running setInterval
TimerTick ==
    \E s \in intervals :
        /\ recordingTime < MaxRecTime
        /\ recordingTime' = recordingTime + 1
        /\ UNCHANGED <<recordingMode, isRecording, stream, mediaError,
                       mediaRecorderRef, chunksRef, timerRef, mediaFile,
                       fileOrigin, liveStreams, acquisitions, recorders,
                       intervals, nextStream, otherVars>>

CaptureNext ==
    \/ StartAudioMode \/ StartVideoMode \/ AcquisitionSettles
    \/ StartVideoRecording \/ StopRecording \/ OnDataAvailable \/ OnStop
    \/ CancelRecording \/ ClearMedia \/ HandleFileChange \/ TimerTick

CaptureSpec == CaptureInit /\ [][CaptureNext]_vars

ActiveRecorders == {s \in DOMAIN recorders : recorders[s].state = "recording"}

\* C4: when cancelRecording, invoked with a stream acquired, returns, that
\* stream's tracks are stopped, no elapsed-time interval is running and
\* recordingTime is 0.
C4_CancelReleases ==
    [][(Controls /\ stream # NoStream /\ recordingMode' = "none")
         => /\ stream \notin liveStreams'
            /\ intervals' = {}
            /\ recordingTime' = 0]_vars

\* C5: once stopRecording was invoked on a recorder and its onstop handler
\* has run, the stream it recorded has no live track and its interval is
\* cleared.
C5_StopReleases ==
    \A s \in DOMAIN recorders :
        (recorders[s].stopped /\ recorders[s].state = "inactive")
        => s \notin liveStreams /\ s \notin intervals

\* C6: at most one device stream is held and at most one recorder is active,
\* and a mode can be selected only with no stream held and no recorder active.
C6_OneSession ==
    /\ Cardinality(liveStreams) <= 1
    /\ Cardinality(ActiveRecorders) <= 1
    /\ Selection => liveStreams = {} /\ ActiveRecorders = {}

\* C7: a file attached by the recorder's onstop handler has a non-empty
\* content type and a size greater than zero.
C7_ArtifactNonEmpty ==
    fileOrigin = "recording" => mediaFile[1] # "" /\ mediaFile[2] > 0

\* what the catch of startAudioMode and of startVideoMode shows
AcquisitionErrors ==
    {"Could not access microphone.", "Could not access camera/microphone."}

\* C25: while the error of a failed device acquisition is shown, no stream
\* is held, no track is live, no recorder is active, no interval runs and
\* nothing is stored.
C25_FailedAcquisitionHoldsNothing ==
    mediaError \in AcquisitionErrors =>
        /\ stream = NoStream
        /\ liveStreams = {}
        /\ ActiveRecorders = {}
        /\ intervals = {}
        /\ ~isRecording
        /\ store = EmptyStore

\* C26: the elapsed-time counter is 0 and no interval runs whenever no
\* recording is active, and at most one interval advances it.
C26_CounterFollowsRecording ==
    /\ ~isRecording => (recordingTime = 0 /\ intervals = {})
    /\ Cardinality(intervals) <= 1

\* C28: with recordingMode 'none' no stream is held in state, no track is
\* live, no recorder is active and isRecording is false.
C28_NoneHoldsNothing ==
    recordingMode = "none" =>
        /\ stream = NoStream
        /\ liveStreams = {}
        /\ ActiveRecorders = {}
        /\ ~isRecording

\* C29: a file built by a recorder's onstop handler is attached only while
\* the mode it was recorded in is selected; with recordingMode 'none', as
\* after cancelRecording, no recorded file is attached.
C29_CancelLeavesNoArtifact ==
    recordingMode = "none" => fileOrigin # "recording"


\* =====================================================================
\* The create path in detail: the form being filled in, the note being
\* refined, a file being attached, and the submission under every
\* behaviour of the enrichment collaborator
\* =====================================================================
\* "off": no API key; "fail": the call throws; "empty": the model answers
\* with no text; "ok": it answers
AiModes == {"off", "fail", "empty", "ok"}

Titles == {"", "Title"}
Notes == {"", "note"}
Dates == {<<>>} \cup {ToISOString(t) : t \in Times}

\* the form as handleSubmit reads it
CurrentForm ==
    [title |-> formData.title, description |-> formData.description,
     unlockDate |-> formData.unlockDate, mediaFile |-> mediaFile]

\* The user edits the form while it is not being submitted.
Editable == view = "CREATE" /\ ~isSubmitting

\* the form mounted at time 0 over an empty vault
CreateInit ==
    /\ StorageEmpty
    /\ ControllerInit
    /\ idbQueue = <<>>
    /\ view = "CREATE"
    /\ capsules = <<>>
    /\ selectedCapsule = <<>>
    /\ cards = EmptyStore
    /\ timeLeft = EmptyStore
    /\ isSubmitting = FALSE
    /\ enrich = {}
    /\ aiMode \in AiModes
    /\ usedIds = {}
    /\ minDate = 0
    /\ returnedEarly = FALSE
    /\ pendingShow = {}
    /\ missed = {}
    /\ failedSaves = {}
    /\ alerted = {}
    /\ saveCalls = EmptyStore
    /\ submitted = EmptyStore
    /\ formData = EmptyForm
    /\ refining = <<>>

\* every setFormData renders the form again, which recomputes minDateString
Typed(field, value) ==
    /\ Editable
    /\ formData' = [formData EXCEPT ![field] = value]
    /\ minDate' = now
    /\ UNCHANGED <<envVars, repoVars, histVars, captureVars, refining,
                   idbQueue, view, capsules, selectedCapsule, cards, timeLeft,
                   isSubmitting, enrich, aiMode, usedIds, returnedEarly>>

\* onChange of the title input
SetTitle == \E ti \in Titles : Typed("title", ti)

\* onChange of the date input
SetUnlockDate == \E u \in Dates : Typed("unlockDate", u)

\* onChange of the note textarea
SetDescription == \E d \in Notes : Typed("description", d)

\* handleEnhanceText up to its await
HandleEnhanceText ==
    /\ Editable
    /\ refining = <<>>
    /\ formData.description # ""
    /\ refining' = <<formData.description>>
    /\ minDate' = now
    /\ UNCHANGED <<envVars, repoVars, histVars, captureVars, formData,
                   idbQueue, view, capsules, selectedCapsule, cards, timeLeft,
                   isSubmitting, enrich, aiMode, usedIds, returnedEarly>>

\* refineUserNote settles; handleEnhanceText sets the description
RefineSettles ==
    /\ refining # <<>>
    /\ refining' = <<>>
    /\ formData' = IF view = "CREATE"
                   THEN [formData EXCEPT
                           !.description = RefineUserNote(aiMode, refining[1])]
                   ELSE formData
    /\ minDate' = IF view = "CREATE" THEN now ELSE minDate
    /\ UNCHANGED <<envVars, repoVars, histVars, captureVars,
                   idbQueue, view, capsules, selectedCapsule, cards, timeLeft,
                   isSubmitting, enrich, aiMode, usedIds, returnedEarly>>

\* a file chosen in the file input of the form
AttachFile == Editable /\ HandleFileChange

\* the bin button of the form
RemoveFile == Editable /\ ClearMedia

\* the form submitted as it stands
SubmitForm == Submit(CurrentForm)

CreateNext ==
    \/ SetTitle \/ SetUnlockDate \/ SetDescription
    \/ HandleEnhanceText \/ RefineSettles
    \/ AttachFile \/ RemoveFile
    \/ SubmitForm \/ HintSettles \/ ReflectionSettles
    \/ SaveSettles \/ LoadSettles \/ Tick

CreateSpec == CreateInit /\ [][CreateNext]_vars

\* what the user entered, as it stands in a capsule
UserFields(c) ==
    [id |-> c.id, title |-> c.title, description |-> c.description,
     unlockDate |-> c.unlockDate, mediaFile |-> c.mediaBlob]

PutCalls == {idbQueue[i] : i \in {j \in DOMAIN idbQueue : idbQueue[j].op = "put"}}

\* C14: with the enrichment collaborator failing or not configured, the
\* only failure alerted is a failed save, a submission under way is still
\* on its way to saveCapsule, and the capsule handed to saveCapsule and the
\* capsule stored carry the title, description, unlockDate and media the
\* user submitted.
C14_EnrichmentNeverBlocks ==
    aiMode \in {"off", "fail"} =>
        /\ alerted \subseteq failedSaves
        /\ isSubmitting => (enrich # {} \/ idbQueue # <<>>)
        /\ \A call \in PutCalls : UserFields(call.capsule) = submitted[call.id]
        /\ \A id \in DOMAIN store \cap DOMAIN submitted :
              UserFields(store[id]) = submitted[id]

\* hint and reflection both failed and the capsule, note and file, is stored
C14_Witness ==
    /\ aiMode = "fail"
    /\ alerted = {}
    /\ \E id \in DOMAIN store :
          /\ store[id].mediaBlob # NoBlob
          /\ store[id].description = "note"
          /\ store[id].aiReflection = ""
          /\ UserFields(store[id]) = submitted[id]

\* C18: a stored capsule has mediaType 'text' exactly when it has no
\* artifact, and 'image', 'audio', 'video' exactly when the artifact's
\* content type starts with image/, audio/, video/, whatever content type
\* the attached file declares.
C18_MediaTypeFromContentType ==
    \A k \in DOMAIN store :
        LET c == store[k]
            f == c.mediaBlob
        IN /\ c.mediaType = "text" <=> f = NoBlob
           /\ c.mediaType = "image" <=> (f # NoBlob /\ StartsWith(f[1], "image/"))
           /\ c.mediaType = "audio" <=> (f # NoBlob /\ StartsWith(f[1], "audio/"))
           /\ c.mediaType = "video" <=> (f # NoBlob /\ StartsWith(f[1], "video/"))

\* =====================================================================
\* loadCapsules over a vault that already holds capsules
\* =====================================================================
MaxSortIds == 4     \* capsules in the vault
MaxSortDate == 6    \* latest unlock date in the vault

\* a vault with keys 1..n, the capsule under key k unlocking at dates[k]
VaultOf(dates) == [k \in DOMAIN dates |-> Fixture(k, dates[k], NoBlob, TRUE)]

Vaults ==
    {VaultOf(dates) :
        dates \in UNION {[1..n -> 0..MaxSortDate] : n \in 0..MaxSortIds}}

\* the App mounts over a stored vault: useEffect calls loadCapsules()
SortInit ==
    /\ store \in Vaults
    /\ now \in Times
    /\ nextUrl = 0
    /\ lastOp = NoOp
    /\ readResult = <<>>
    /\ readAt = 0
    /\ acked = EmptyStore
    /\ ControllerInit
    /\ idbQueue = <<GetAllCall("load", 0, FALSE)>>
    /\ view = "DASHBOARD"
    /\ capsules = <<>>
    /\ selectedCapsule = <<>>
    /\ cards = EmptyStore
    /\ timeLeft = EmptyStore
    /\ isSubmitting = FALSE
    /\ enrich = {}
    /\ aiMode = "off"
    /\ usedIds = {}
    /\ minDate = 0
    /\ returnedEarly = FALSE
    /\ pendingShow = {}
    /\ missed = {}
    /\ failedSaves = {}
    /\ alerted = {}
    /\ saveCalls = EmptyStore
    /\ submitted = EmptyStore
    /\ formData = EmptyForm
    /\ refining = <<>>

SortNext == LoadSettles \/ Tick

SortSpec == SortInit /\ [][SortNext]_vars

\* C17: the list loadCapsules displays holds the stored capsules, every
\* unlocked one before every locked one, ascending by unlockDate within
\* each group, capsules with equal unlockDate in the order getAllCapsules
\* returned them (key order).
C17_SortOrder ==
    capsules # <<>> =>
        /\ IdsOf(capsules) = DOMAIN store
        /\ Len(capsules) = Cardinality(DOMAIN store)
        /\ \A i, j \in 1..Len(capsules) :
              i < j =>
                /\ ~(capsules[i].isLocked /\ ~capsules[j].isLocked)
                /\ capsules[i].isLocked = capsules[j].isLocked
                     => DateTime(capsules[i].unlockDate)
                          <= DateTime(capsules[j].unlockDate)
                /\ capsules[i].unlockDate = capsules[j].unlockDate
                     => capsules[i].id < capsules[j].id

\* unlock dates {T+1, T+5, T-1, T+3} in key order, read at T = 1, are
\* listed as [T-1, T+1, T+3, T+5], the first unlocked and the rest locked
C17_Witness ==
    /\ [k \in DOMAIN store |-> DateTime(store[k].unlockDate)] = <<2, 6, 0, 4>>
    /\ [i \in DOMAIN capsules |-> DateTime(capsules[i].unlockDate)]
          = <<0, 2, 4, 6>>
    /\ [i \in DOMAIN capsules |-> capsules[i].isLocked]
          = <<FALSE, TRUE, TRUE, TRUE>>

\* =====================================================================
\* The countdown of a capsule card
\* =====================================================================
MaxDays == 2        \* whole days a capsule is away from unlocking

\* the first, second and last value of a unit that has n values
Edge(n) == {0, 1, n - 1}

\* unlock instants on and next to every carry of the countdown
Instants ==
    {d * MsPerDay + h * MsPerHour + m * MsPerMinute + sec * MsPerSecond + ms :
        d \in 0..MaxDays, h \in Edge(24), m \in Edge(60), sec \in Edge(60),
        ms \in Edge(MsPerSecond)}

\* the App mounts over a vault of one capsule
TimerInit ==
    /\ store \in {VaultOf(<<u>>) : u \in Instants}
    /\ now \in Times
    /\ nextUrl = 0
    /\ lastOp = NoOp
    /\ readResult = <<>>
    /\ readAt = 0
    /\ acked = EmptyStore
    /\ ControllerInit
    /\ idbQueue = <<GetAllCall("load", 0, FALSE)>>
    /\ view = "DASHBOARD"
    /\ capsules = <<>>
    /\ selectedCapsule = <<>>
    /\ cards = EmptyStore
    /\ timeLeft = EmptyStore
    /\ isSubmitting = FALSE
    /\ enrich = {}
    /\ aiMode = "off"
    /\ usedIds = {}
    /\ minDate = 0
    /\ returnedEarly = FALSE
    /\ pendingShow = {}
    /\ missed = {}
    /\ failedSaves = {}
    /\ alerted = {}
    /\ saveCalls = EmptyStore
    /\ submitted = EmptyStore
    /\ formData = EmptyForm
    /\ refining = <<>>

TimerNext == LoadSettles \/ CalculateTimeLeft \/ Tick

TimerSpec == TimerInit /\ [][TimerNext]_vars

\* <<days, hours, minutes, seconds>> is the floor of d milliseconds
FloorOf(shown, d) ==
    /\ \A i \in 1..4 : shown[i] \in Nat
    /\ shown[2] < 24
    /\ shown[3] < 60
    /\ shown[4] < 60
    /\ shown[1] * 86400 + shown[2] * 3600 + shown[3] * 60 + shown[4]
          = d \div 1000

\* C20: whenever calculateTimeLeft changes the remaining time a card shows
\* and the distance d = unlockDate - now is positive, the days, hours,
\* minutes and seconds shown are naturals with hours < 24, minutes < 60,
\* seconds < 60 and days*86400 + hours*3600 + minutes*60 + seconds =
\* floor(d / 1000).
C20_FloorDecomposition ==
    [][\A id \in DOMAIN timeLeft \cap DOMAIN timeLeft' :
          LET d == DateTime(CapsuleById(capsules, id).unlockDate) - now
          IN (timeLeft'[id] # timeLeft[id] /\ d > 0)
                => /\ Len(timeLeft'[id]) = 4
                   /\ FloorOf(timeLeft'[id], d)]_vars

\* one millisecond short of a whole day is shown as 0d 23h 59m 59s
C20_Witness ==
    /\ now = 1
    /\ \E id \in DOMAIN timeLeft :
          /\ DateTime(CapsuleById(capsules, id).unlockDate) = MsPerDay
          /\ timeLeft[id] = <<0, 23, 59, 59>>

\* =====================================================================
\* A capture session and the submission of the form, up to the unmount of
\* CreateCapsule. What the recorder and getUserMedia do after the unmount
\* reaches no mounted component and is left out.
\* =====================================================================
\* a form that passes handleSubmit's check
ReadyForm ==
    [title |-> "Title", description |-> "", unlockDate |-> ToISOString(MaxTime)]

SessionInit ==
    /\ StorageEmpty
    /\ ControllerInit
    /\ idbQueue = <<>>
    /\ view = "CREATE"
    /\ capsules = <<>>
    /\ selectedCapsule = <<>>
    /\ cards = EmptyStore
    /\ timeLeft = EmptyStore
    /\ isSubmitting = FALSE
    /\ enrich = {}
    /\ aiMode = "off"
    /\ usedIds = {}
    /\ minDate = 0
    /\ returnedEarly = FALSE
    /\ pendingShow = {}
    /\ missed = {}
    /\ failedSaves = {}
    /\ alerted = {}
    /\ saveCalls = EmptyStore
    /\ submitted = EmptyStore
    /\ formData = ReadyForm
    /\ refining = <<>>

\* the capture controls are enabled whether or not a submission is under way
Capture == view = "CREATE" /\ CaptureNext

\* onBack: Back to Dashboard
OnBack == view = "CREATE" /\ ToDashboard

SessionNext ==
    \/ Capture \/ SubmitForm \/ HintSettles \/ SaveSettles \/ LoadSettles
    \/ OnBack

SessionSpec == SessionInit /\ [][SessionNext]_vars

\* C27: once CreateCapsule is unmounted, the stream it held has no live
\* track and its timer is cleared.
C27_UnmountReleases ==
    view = "DASHBOARD" => (stream \notin liveStreams /\ timerRef = NoTimer)

\* C30: no capsule is stored with mediaType 'text' while a recorder of the
\* session that submitted it is recording and its stream has live tracks.
C30_SessionNotDropped ==
    \A id \in DOMAIN store :
        store[id].mediaType = "text" =>
            ~(ActiveRecorders # {} /\ liveStreams # {})

\* =====================================================================
\* A capsule card across its unlock instant: the dashboard is left and
\* shown again while the clock, in milliseconds, runs past the unlock date
\* =====================================================================
MaxClock == 2       \* the wall clock runs 0..MaxClock here

\* the App mounts over a vault of one capsule
UnlockInit ==
    /\ store \in {VaultOf(<<u>>) : u \in 0..MaxClock}
    /\ now = 0
    /\ nextUrl = 0
    /\ lastOp = NoOp
    /\ readResult = <<>>
    /\ readAt = 0
    /\ acked = EmptyStore
    /\ ControllerInit
    /\ idbQueue = <<GetAllCall("load", 0, FALSE)>>
    /\ view = "DASHBOARD"
    /\ capsules = <<>>
    /\ selectedCapsule = <<>>
    /\ cards = EmptyStore
    /\ timeLeft = EmptyStore
    /\ isSubmitting = FALSE
    /\ enrich = {}
    /\ aiMode = "off"
    /\ usedIds = {}
    /\ minDate = 0
    /\ returnedEarly = FALSE
    /\ pendingShow = {}
    /\ missed = {}
    /\ failedSaves = {}
    /\ alerted = {}
    /\ saveCalls = EmptyStore
    /\ submitted = EmptyStore
    /\ formData = EmptyForm
    /\ refining = <<>>

\* the wall clock advances
Advance ==
    /\ now < MaxClock
    /\ now' = now + 1
    /\ UNCHANGED <<store, nextUrl, repoVars, appVars, histVars,
                   captureVars, formVars>>

UnlockNext ==
    \/ LoadSettles \/ CalculateTimeLeft \/ HandleOpenCapsule
    \/ OnCreateNew \/ ToDashboard \/ Advance

\* time keeps advancing, and setInterval(calculateTimeLeft, 1000) keeps
\* firing for as long as the card is mounted
UnlockSpec ==
    /\ UnlockInit
    /\ [][UnlockNext]_vars
    /\ WF_vars(Advance)
    /\ WF_vars(CalculateTimeLeft)

\* the card of capsule id is on the dashboard
Mounted(id) == id \in DOMAIN cards

\* the current time has passed the unlockDate of the listed capsule id
Passed(id) == DateTime(CapsuleById(capsules, id).unlockDate) < now

\* the card shows the capsule locked: the lock, the countdown, "Locked",
\* and no Open Vault button
ShownLocked(id) == Mounted(id) /\ cards[id]

\* the card shows the capsule unlocked, with the Open Vault button
ShownUnlocked(id) == Mounted(id) /\ ~cards[id]

\* C31: a card that shows its capsule locked after the clock has passed
\* the unlockDate comes to show it unlocked, with Open Vault enabled,
\* unless it is unmounted first; and once a card has shown the capsule
\* unlocked after its unlockDate, the dashboard never shows that capsule
\* locked again.
C31_UnlockShown ==
    \A id \in Ids :
        /\ (ShownLocked(id) /\ Passed(id))
              ~> (~Mounted(id) \/ ShownUnlocked(id))
        /\ []((ShownUnlocked(id) /\ Passed(id)) => [](~ShownLocked(id)))

====
